---- MODULE Spec2Model ----
(***************************************************************************)
(* ponto: declarative deployment of source files as symbolic links,        *)
(* rendered templates or copies.  The model covers the filesystem          *)
(* inspector (file_type.rs), the link and template reconcilers             *)
(* (symlink.rs, template.rs), the copy action (filesystem.rs), the         *)
(* dependency sequencer (config.rs), the hook runner (hook.rs) and the     *)
(* deployment driver (deploy.rs).                                          *)
(***************************************************************************)
EXTENDS Integers, Sequences, FiniteSets, TLC

VARIABLES
    fs,       \* the filesystem: absolute path -> node
    job,      \* the mapping under reconciliation: [op, from, to, variables]
    last,     \* record of the latest reconciler call
    prev,     \* record of the call before it
    calls,    \* number of reconciler calls made so far
    config,   \* the loaded Configuration: [packages, variables]
    opts,     \* the Options: [force, pre, post]
    pc,       \* where deploy stands
    ordered,  \* packages still to deploy, the current one first
    pending,  \* file mappings of the current package not yet processed
    trace     \* the stages deploy has completed, in order

reconcilerVars == <<job, prev, calls>>

deployVars == <<config, opts, pc, ordered, pending, trace>>

vars == <<fs, job, last, prev, calls, config, opts, pc, ordered, pending, trace>>

----------------------------------------------------------------------------
(* Bounds *)

\* reconciler calls made on one mapping in one behaviour
MaxCalls == 3

----------------------------------------------------------------------------
(* Paths.  Paths are strings; the process's working directory is "/w". *)

cwd == "/w"

\* the paths a source or a target of a mapping may involve
CorePaths == {"/w/s", "/w/l", "/x", "/d", "/d/t"}

\* further targets, and the hook scripts with their rendered artifacts
DeployPaths ==
    {"/d/u", "/d/v", "/w/pre.sh", "/w/pre.templated", "/w/h", "/w/h/pre.sh",
     "/w/h/pre.templated", "/w/post.sh", "/w/post.templated", "/w/old.templated"}

AbsPaths == CorePaths \cup DeployPaths

RelPaths == {"s", "pre.sh", "h/pre.sh", "post.sh"}

NoPath == ""

\* directories that exist throughout: the root and the working directory
AlwaysDirs == {"/", cwd}

\* Path::join on the working directory: an absolute path replaces the base
Join(base, p) ==
    IF p \in RelPaths
    THEN (IF base = cwd
          THEN CASE p = "s" -> "/w/s"
                 [] p = "pre.sh" -> "/w/pre.sh"
                 [] p = "h/pre.sh" -> "/w/h/pre.sh"
                 [] p = "post.sh" -> "/w/post.sh"
          ELSE NoPath)
    ELSE p

Abs(p) == Join(cwd, p)

\* Path::parent
Parent(p) ==
    CASE p \in {"/d/t", "/d/u", "/d/v"} -> "/d"
      [] p \in {"/w/h/pre.sh", "/w/h/pre.templated"} -> "/w/h"
      [] p \in {"/w/s", "/w/l", "/w/h", "/w/pre.sh", "/w/pre.templated",
                "/w/post.sh", "/w/post.templated", "/w/old.templated"} -> "/w"
      [] OTHER -> "/"

\* Path::with_extension("templated")
with_extension_templated(p) ==
    CASE p = "/w/pre.sh" -> "/w/pre.templated"
      [] p = "/w/h/pre.sh" -> "/w/h/pre.templated"
      [] p = "/w/post.sh" -> "/w/post.templated"
      [] OTHER -> NoPath

\* Path::extension() == "templated"
has_extension_templated(p) ==
    p \in {"/w/pre.templated", "/w/h/pre.templated", "/w/post.templated",
           "/w/old.templated"}

----------------------------------------------------------------------------
(* File contents.  A file is a sequence of tokens: literal text, a        *)
(* handlebars expression {{x}}, or a byte that is not valid UTF-8.         *)

Literals == {"a", "b"}

VarNames == {"x"}

BadByte == "0xff"

Marker(v) == CASE v = "x" -> "{{x}}"

Markers == {Marker(v) : v \in VarNames}

VarOf(tok) == CHOOSE v \in VarNames : Marker(v) = tok

\* the contents a file of the initial filesystem may have
FileContents ==
    { <<"a">>, <<"{{x}}">>, <<"a", "{{x}}">>, <<"a", "a">>, <<BadByte>> }

\* the variable mappings a run may be given (HashMap<String, String>)
VariableMaps == { <<>> } \cup { [v \in VarNames |-> l] : l \in Literals }

IsDefined(variables, v) == v \in DOMAIN variables

----------------------------------------------------------------------------
(* Filesystem nodes *)

Absent == [kind |-> "missing", bytes |-> <<>>, dest |-> NoPath, exec |-> FALSE]

DirNode == [kind |-> "dir", bytes |-> <<>>, dest |-> NoPath, exec |-> FALSE]

\* a regular file with its bytes and whether an executable bit is set
ModeFile(b, x) == [kind |-> "file", bytes |-> b, dest |-> NoPath, exec |-> x]

FileNode(b) == ModeFile(b, FALSE)

\* a regular file the process has no permission to read
Unreadable == [kind |-> "unreadable", bytes |-> <<>>, dest |-> NoPath, exec |-> FALSE]

LinkNode(d) == [kind |-> "symlink", bytes |-> <<>>, dest |-> d, exec |-> FALSE]

NodeAt(f, a) == IF a \in DOMAIN f THEN f[a] ELSE Absent

\* the path a final-component symlink chain ends at (the last node may be
\* missing); NoPath when the chain leaves the tree or loops
RECURSIVE Follow(_, _, _)
Follow(f, a, n) ==
    IF a = NoPath \/ a \notin DOMAIN f THEN NoPath
    ELSE IF f[a].kind = "symlink"
         THEN (IF n = 0 THEN NoPath
               ELSE Follow(f, Join(Parent(a), f[a].dest), n - 1))
         ELSE a

Resolve(f, p) == Follow(f, Abs(p), Cardinality(DOMAIN f))

\* Path::exists: follows symbolic links
exists(f, p) ==
    Abs(p) \in AlwaysDirs \/ NodeAt(f, Resolve(f, p)).kind # "missing"

\* Path::is_dir: follows symbolic links
is_dir(f, p) ==
    Abs(p) \in AlwaysDirs \/ NodeAt(f, Resolve(f, p)).kind = "dir"

\* fs::read_link, given the node at the path
link_of(n) ==
    IF n.kind = "symlink" THEN [ok |-> TRUE, path |-> n.dest]
    ELSE [ok |-> FALSE, path |-> NoPath]

read_link(f, p) == link_of(NodeAt(f, Abs(p)))

\* the UTF-8 decoding of the bytes of the node a path resolves to
decode(n) ==
    CASE n.kind = "missing" -> [ok |-> FALSE, kind |-> "NotFound", text |-> <<>>]
      [] n.kind = "dir" -> [ok |-> FALSE, kind |-> "IsADirectory", text |-> <<>>]
      [] n.kind = "unreadable" ->
            [ok |-> FALSE, kind |-> "PermissionDenied", text |-> <<>>]
      [] OTHER ->
            IF \E i \in 1..Len(n.bytes) : n.bytes[i] = BadByte
            THEN [ok |-> FALSE, kind |-> "InvalidData", text |-> <<>>]
            ELSE [ok |-> TRUE, kind |-> "", text |-> n.bytes]

\* fs::read_to_string: follows symbolic links, decodes UTF-8
read_to_string(f, p) == decode(NodeAt(f, Resolve(f, p)))

\* fs::create_dir_all
create_dir_all(f, d) ==
    CASE is_dir(f, d) -> [ok |-> TRUE, fs |-> f]
      [] d \in DOMAIN f /\ f[d].kind = "missing" ->
            [ok |-> TRUE, fs |-> [f EXCEPT ![d] = DirNode]]
      [] OTHER -> [ok |-> FALSE, fs |-> f]

\* unlink of an absolute path
unlink(f, a) ==
    IF a \in DOMAIN f /\ f[a].kind \in {"file", "unreadable", "symlink"}
    THEN [ok |-> TRUE, fs |-> [f EXCEPT ![a] = Absent]]
    ELSE [ok |-> FALSE, fs |-> f]

\* fs::remove_file: unlinks the path itself, never what a link points at
remove_file(f, p) == unlink(f, Abs(p))

\* symlink(2) at an absolute path
symlink_at(f, original, a) ==
    IF a \in DOMAIN f /\ f[a].kind = "missing" /\ is_dir(f, Parent(a))
    THEN [ok |-> TRUE, fs |-> [f EXCEPT ![a] = LinkNode(original)]]
    ELSE [ok |-> FALSE, fs |-> f]

\* std::os::unix::fs::symlink(original, link)
symlink(f, original, link) == symlink_at(f, original, Abs(link))

\* open with O_CREAT | O_TRUNC and write, at the path the name resolves to;
\* a file that exists keeps its mode
write_at(f, a, bytes) ==
    IF a # NoPath /\ f[a].kind \in {"missing", "file"} /\ is_dir(f, Parent(a))
    THEN [ok |-> TRUE, fs |-> [f EXCEPT ![a] = ModeFile(bytes, f[a].exec)]]
    ELSE [ok |-> FALSE, fs |-> f]

\* mutant: the file is created and nothing is written
write_file_empty(f, p, bytes) == write_at(f, Resolve(f, p), <<>>)

\* File::create followed by write_all (also fs::write): follows symbolic links
write_file(f, p, bytes) == write_at(f, Resolve(f, p), bytes)

----------------------------------------------------------------------------
(* filesystem.rs *)

canonical(f, a) ==
    IF NodeAt(f, a).kind # "missing"
    THEN [ok |-> TRUE, path |-> a]
    ELSE [ok |-> FALSE, path |-> NoPath]

\* mutant: the path is used as given, not canonicalized
real_path_as_given(f, p) ==
    IF exists(f, p) THEN [ok |-> TRUE, path |-> p] ELSE [ok |-> FALSE, path |-> NoPath]

\* FilesystemExt::real_path: canonicalize
real_path(f, p) == canonical(f, Resolve(f, p))

----------------------------------------------------------------------------
(* file_type.rs *)

File(content) == [tag |-> "File", content |-> content, path |-> NoPath]

SymbolicLink(t) == [tag |-> "SymbolicLink", content |-> <<>>, path |-> t]

Directory == [tag |-> "Directory", content |-> <<>>, path |-> NoPath]

Missing == [tag |-> "Missing", content |-> <<>>, path |-> NoPath]

\* Option<String>
Some(t) == <<t>>

None == <<>>

\* mutant: is_dir is asked before read_link
classify_directory_first(l, d, r) ==
    IF d THEN [ok |-> TRUE, type |-> Directory]
    ELSE IF l.ok THEN [ok |-> TRUE, type |-> SymbolicLink(l.path)]
    ELSE IF r.ok THEN [ok |-> TRUE, type |-> File(Some(r.text))]
    ELSE IF r.kind = "InvalidData" THEN [ok |-> TRUE, type |-> File(None)]
    ELSE IF r.kind = "NotFound" THEN [ok |-> TRUE, type |-> Missing]
    ELSE [ok |-> FALSE, type |-> Missing]

\* the decision of FileType::try_from, given what read_link, is_dir and
\* read_to_string answer for the path
classify(l, d, r) ==
    IF l.ok THEN [ok |-> TRUE, type |-> SymbolicLink(l.path)]
    ELSE IF d THEN [ok |-> TRUE, type |-> Directory]
    ELSE IF r.ok THEN [ok |-> TRUE, type |-> File(Some(r.text))]
    ELSE IF r.kind = "InvalidData" THEN [ok |-> TRUE, type |-> File(None)]
    ELSE IF r.kind = "NotFound" THEN [ok |-> TRUE, type |-> Missing]
    ELSE [ok |-> FALSE, type |-> Missing]

\* impl TryFrom<&Path> for FileType
try_from(f, p) == classify(read_link(f, p), is_dir(f, p), read_to_string(f, p))

----------------------------------------------------------------------------
(* handlebars: the render capability, strict mode (handlebars.rs:10) *)

\* Handlebars::render_template: every expression is replaced by the value
\* of its variable; an undefined variable is an error in strict mode
render_template(text, variables) ==
    IF \E i \in 1..Len(text) :
            text[i] \in Markers /\ ~IsDefined(variables, VarOf(text[i]))
    THEN [ok |-> FALSE, text |-> <<>>]
    ELSE [ok |-> TRUE,
          text |-> [i \in 1..Len(text) |->
                        IF text[i] \in Markers
                        THEN variables[VarOf(text[i])]
                        ELSE text[i]]]

----------------------------------------------------------------------------
(* Events of one call: log lines and the filesystem calls that succeeded *)

Log(msg) == [kind |-> "log", what |-> msg]

Sys(call) == [kind |-> "fs", what |-> call]

IsSys(e) == e.kind = "fs"

\* the filesystem calls among the events of a call
Ops(events) ==
    LET sel == SelectSeq(events, IsSys) IN [i \in 1..Len(sel) |-> sel[i].what]

Outcome(f, ok, state, events) ==
    [fs |-> f, ok |-> ok, state |-> state, events |-> events]

----------------------------------------------------------------------------
(* symlink.rs *)

\* mutant: the comparison of the link with the real path inverted
SymlinkState_compare_inverted(t, rp) ==
    IF ~rp.ok THEN [ok |-> FALSE, state |-> "error"]
    ELSE IF t # rp.path THEN [ok |-> TRUE, state |-> "Identical"]
    ELSE [ok |-> TRUE, state |-> "Changed"]

\* SymlinkState::from, lines 66-74: the link against the real path of the source
SymlinkState_compare(t, rp) ==
    IF ~rp.ok THEN [ok |-> FALSE, state |-> "error"]
    ELSE IF t = rp.path THEN [ok |-> TRUE, state |-> "Identical"]
    ELSE [ok |-> TRUE, state |-> "Changed"]

\* SymlinkState::from
SymlinkState_from(f, source_path, source_type, link_type) ==
    CASE source_type.tag = "Missing" /\ link_type.tag = "SymbolicLink" ->
            [ok |-> TRUE, state |-> "OnlyTargetExists"]
      [] source_type.tag # "Missing" /\ link_type.tag = "SymbolicLink" ->
            SymlinkState_compare(link_type.path, real_path(f, source_path))
      [] source_type.tag = "Missing" /\ link_type.tag = "Missing" ->
            [ok |-> TRUE, state |-> "BothMissing"]
      [] source_type.tag # "Missing" /\ link_type.tag = "Missing" ->
            [ok |-> TRUE, state |-> "OnlySourceExists"]
      [] OTHER -> [ok |-> TRUE, state |-> "TargetNotSymlink"]

\* Symlink::create, lines 11-12: both paths are classified, then compared
Symlink_state(f, from, sft, tft) ==
    IF sft.ok /\ tft.ok
    THEN SymlinkState_from(f, from, sft.type, tft.type)
    ELSE [ok |-> FALSE, state |-> "error"]

\* mutant: force also replaces a target that is no symbolic link
Symlink_should_continue_over_other(state, force) ==
    CASE state \in {"Changed", "BothMissing", "OnlyTargetExists"} -> FALSE
      [] state = "OnlySourceExists" -> TRUE
      [] state \in {"Identical", "TargetNotSymlink"} /\ force -> TRUE
      [] OTHER -> FALSE

\* mutant: force also replaces a link that points elsewhere
Symlink_should_continue_repoints(state, force) ==
    CASE state \in {"BothMissing", "OnlyTargetExists", "TargetNotSymlink"} -> FALSE
      [] state = "OnlySourceExists" -> TRUE
      [] state \in {"Identical", "Changed"} /\ force -> TRUE
      [] OTHER -> FALSE

\* mutant: a link is also made when the source is missing
Symlink_should_continue_without_source(state, force) ==
    CASE state \in {"Changed", "TargetNotSymlink"} -> FALSE
      [] state \in {"OnlySourceExists", "BothMissing", "OnlyTargetExists"} -> TRUE
      [] state = "Identical" /\ force -> TRUE
      [] OTHER -> FALSE

\* Symlink::create, lines 16-27: whether to act
Symlink_should_continue(state, force) ==
    CASE state \in {"Changed", "BothMissing", "OnlyTargetExists", "TargetNotSymlink"} ->
            FALSE
      [] state = "OnlySourceExists" -> TRUE
      [] state = "Identical" /\ force -> TRUE
      [] OTHER -> FALSE

\* Symlink::create, lines 13 and 23: what is logged before acting
Symlink_trace(state, force) ==
    IF state = "Identical" /\ force
    THEN <<Log(state), Log("forcing symlink creation")>>
    ELSE <<Log(state)>>

\* Symlink::create, lines 35-41, after symlink returned s3
Symlink_linked(f, state, e, s3) ==
    IF ~s3.ok THEN Outcome(f, FALSE, state, e)
    ELSE Outcome(s3.fs, TRUE, state, e \o <<Sys("symlink")>>)

\* Symlink::create, lines 35-41, after real_path returned rp
Symlink_link(f, to, state, e, rp) ==
    IF ~rp.ok THEN Outcome(f, FALSE, state, e)
    ELSE Symlink_linked(f, state, e, symlink(f, rp.path, to))

\* Symlink::create, lines 31-34, after remove_file returned s2
Symlink_removed(f, from, to, state, e, s2) ==
    IF ~s2.ok THEN Outcome(f, FALSE, state, e \o <<Log("removing existing symlink")>>)
    ELSE Symlink_link(s2.fs, to, state,
                      e \o <<Log("removing existing symlink"), Sys("remove_file")>>,
                      real_path(s2.fs, from))

\* Symlink::create, lines 30-41, after create_dir_all returned s1
Symlink_apply(f, from, to, force, state, e, s1) ==
    IF ~s1.ok THEN Outcome(f, FALSE, state, e)
    ELSE IF force /\ exists(s1.fs, to)
         THEN Symlink_removed(s1.fs, from, to, state, e \o <<Sys("create_dir_all")>>,
                              remove_file(s1.fs, to))
         ELSE Symlink_link(s1.fs, to, state, e \o <<Sys("create_dir_all")>>,
                           real_path(s1.fs, from))

\* Symlink::create, lines 13-44, once the state st is known
Symlink_decided(f, from, to, force, st) ==
    IF ~st.ok THEN Outcome(f, FALSE, "error", <<>>)
    ELSE IF ~Symlink_should_continue(st.state, force)
         THEN Outcome(f, TRUE, st.state, Symlink_trace(st.state, force))
         ELSE Symlink_apply(f, from, to, force, st.state,
                            Symlink_trace(st.state, force),
                            create_dir_all(f, Parent(Abs(to))))

\* Symlink::create
Symlink_create(f, from, to, force) ==
    Symlink_decided(f, from, to, force,
                    Symlink_state(f, from, try_from(f, from), try_from(f, to)))

----------------------------------------------------------------------------
(* template.rs *)

\* TemplateState::from
TemplateState_from(source_type, templated) ==
    CASE source_type.tag = "File" /\ templated.tag = "File" ->
            IF source_type.content = templated.content
            THEN "Identical" ELSE "Changed"
      [] source_type.tag = "File" /\ templated.tag = "Missing" -> "OnlySourceExists"
      [] source_type.tag = "Missing" /\ templated.tag = "Missing" -> "BothMissing"
      [] OTHER -> "TargetNotRegularFile"

\* Template::render, line 20: both paths are classified, then compared
Template_state(sft, tft) ==
    IF sft.ok /\ tft.ok
    THEN [ok |-> TRUE, state |-> TemplateState_from(sft.type, tft.type)]
    ELSE [ok |-> FALSE, state |-> "error"]

\* mutant: an Identical target is rendered again whatever force is
Template_should_continue_always(state, force) ==
    CASE state \in {"TargetNotRegularFile", "BothMissing"} -> FALSE
      [] OTHER -> TRUE

\* mutant: the decision also depends on how many calls were made before
Template_should_continue_later(state, force) ==
    CASE state \in {"TargetNotRegularFile", "BothMissing"} -> FALSE
      [] state \in {"OnlySourceExists", "Changed"} -> TRUE
      [] state = "Identical" -> force \/ calls > 1
      [] OTHER -> FALSE

\* Template::render, lines 23-31: whether to act
Template_should_continue(state, force) ==
    CASE state \in {"TargetNotRegularFile", "BothMissing"} -> FALSE
      [] state \in {"OnlySourceExists", "Changed"} -> TRUE
      [] state = "Identical" /\ force -> TRUE
      [] OTHER -> FALSE

\* Template::render, lines 21 and 27: what is logged before acting
Template_trace(state, force) ==
    IF state = "Identical" /\ force
    THEN <<Log(state), Log("forcing template rendering")>>
    ELSE <<Log(state)>>

\* Template::render, lines 45-46, after the file was created and written
Template_written(f, state, e, s3) ==
    IF ~s3.ok THEN Outcome(f, FALSE, state, e)
    ELSE Outcome(s3.fs, TRUE, state, e \o <<Sys("write")>>)

\* Template::render, lines 44-46, after create_dir_all returned s2
Template_write(f, to, state, e, text, s2) ==
    IF ~s2.ok THEN Outcome(f, FALSE, state, e)
    ELSE Template_written(s2.fs, state, e \o <<Sys("create_dir_all")>>,
                          write_file(s2.fs, to, text))

\* Template::render, lines 40-46, after the render capability returned
Template_rendered(f, to, state, e, rendered) ==
    IF ~rendered.ok THEN Outcome(f, FALSE, state, e)
    ELSE Template_write(f, to, state, e, rendered.text,
                        create_dir_all(f, Parent(Abs(to))))

\* Template::render, lines 39-46, after the source was read
Template_read(f, to, variables, state, e, content) ==
    IF ~content.ok THEN Outcome(f, FALSE, state, e)
    ELSE Template_rendered(f, to, state, e, render_template(content.text, variables))

\* Template::render, lines 34-46, after remove_file returned s1
Template_removed(f, from, to, variables, state, e, s1) ==
    IF ~s1.ok THEN Outcome(f, FALSE, state, e \o <<Log("removing existing file")>>)
    ELSE Template_read(s1.fs, to, variables, state,
                       e \o <<Log("removing existing file"), Sys("remove_file")>>,
                       read_to_string(s1.fs, from))

\* Template::render, lines 21-49, once the state st is known
Template_decided(f, from, to, variables, force, st) ==
    IF ~st.ok THEN Outcome(f, FALSE, "error", <<>>)
    ELSE IF ~Template_should_continue(st.state, force)
         THEN Outcome(f, TRUE, st.state, Template_trace(st.state, force))
    ELSE IF force /\ exists(f, to)
         THEN Template_removed(f, from, to, variables, st.state,
                               Template_trace(st.state, force), remove_file(f, to))
         ELSE Template_read(f, to, variables, st.state,
                            Template_trace(st.state, force), read_to_string(f, from))

\* Template::render
Template_render(f, from, to, variables, force) ==
    Template_decided(f, from, to, variables, force,
                     Template_state(try_from(f, from), try_from(f, to)))

----------------------------------------------------------------------------
(* filesystem.rs *)

\* fs::copy between the files the two names resolve to: `to` is opened with
\* truncation before `from` is read, and gets the mode of `from`
copy_at(f, a, b, w) ==
    IF NodeAt(f, a).kind = "file" /\ w.ok
    THEN [ok |-> TRUE, fs |-> [w.fs EXCEPT ![b].exec = f[a].exec]]
    ELSE [ok |-> FALSE, fs |-> f]

copy_between(f, a, b) ==
    copy_at(f, a, b, write_at(f, b, IF a = b THEN <<>> ELSE NodeAt(f, a).bytes))

\* fs::copy: follows symbolic links on both sides
fs_copy(f, from, to) == copy_between(f, Resolve(f, from), Resolve(f, to))

\* Filesystem::copy, line 17, after fs::copy returned s2
Filesystem_copied(f, s2) ==
    IF ~s2.ok THEN Outcome(f, FALSE, "copy", <<Sys("create_dir_all")>>)
    ELSE Outcome(s2.fs, TRUE, "copy", <<Sys("create_dir_all"), Sys("copy")>>)

\* Filesystem::copy, lines 16-18, after create_dir_all returned s1
Filesystem_copy_into(f, from, to, s1) ==
    IF ~s1.ok THEN Outcome(f, FALSE, "copy", <<>>)
    ELSE Filesystem_copied(s1.fs, fs_copy(s1.fs, from, to))

\* Filesystem::copy
Filesystem_copy(f, from, to, force) ==
    IF exists(f, to) /\ ~force
    THEN Outcome(f, TRUE, "skipped", <<Log("already exists, skipping")>>)
    ELSE Filesystem_copy_into(f, from, to, create_dir_all(f, Parent(Abs(to))))

\* FilesystemExt::is_template, lines 34-42: the file is opened and read
sniff(n, r) ==
    IF n.kind = "unreadable" THEN [ok |-> FALSE, value |-> FALSE]
    ELSE IF ~r.ok THEN [ok |-> TRUE, value |-> FALSE]
    ELSE [ok |-> TRUE, value |-> \E i \in 1..Len(r.text) : r.text[i] \in Markers]

\* FilesystemExt::is_template
is_template(f, p) ==
    IF ~exists(f, p) THEN [ok |-> FALSE, value |-> FALSE]
    ELSE IF is_dir(f, p) THEN [ok |-> TRUE, value |-> FALSE]
    ELSE sniff(NodeAt(f, Resolve(f, p)), read_to_string(f, p))

----------------------------------------------------------------------------
(* Reconciling one mapping, any number of times, on any initial filesystem *)

Sources == {"s", "/w/s", "/w/l"}

Target == "/d/t"

\* destinations a pre-existing symbolic link may have
LinkDests == {"/w/s", "s", "/x", "/w/l"}

NoCall ==
    [op |-> "none", from |-> NoPath, to |-> NoPath, variables |-> <<>>,
     force |-> FALSE, pre |-> <<>>, ok |-> TRUE, state |-> "", events |-> <<>>]

\* the record of a call: its arguments, the tree it found and its outcome
Call(op, from, to, variables, force, pre, r) ==
    [op |-> op, from |-> from, to |-> to, variables |-> variables,
     force |-> force, pre |-> pre, ok |-> r.ok, state |-> r.state,
     events |-> r.events]

\* every kind of node a source or a target may be
AnyNode ==
    {Absent, DirNode, Unreadable} \cup {FileNode(b) : b \in FileContents}
        \cup {LinkNode(d) : d \in LinkDests}

CoreFilesystems ==
    { f \in [CorePaths -> AnyNode] :
        /\ f["/w/s"].kind # "symlink"
        /\ f["/w/l"] \in {Absent, LinkNode("/w/s"), LinkNode("s"), LinkNode("/x")}
        /\ f["/x"] \in {Absent, FileNode(<<"a">>)}
        /\ f["/d"] \in {Absent, DirNode}
        /\ f["/d"] = Absent => f["/d/t"] = Absent }

\* the tree with the nodes of g, and nothing at any other path
Tree(g) == [a \in AbsPaths |-> IF a \in DOMAIN g THEN g[a] ELSE Absent]

InitialFilesystems == { Tree(g) : g \in CoreFilesystems }

Init ==
    /\ fs \in InitialFilesystems
    /\ job \in [op : {"link", "template", "copy"}, from : Sources,
                to : {Target}, variables : VariableMaps]
    /\ last = NoCall
    /\ prev = NoCall
    /\ calls = 0
    /\ config = [packages |-> <<>>, variables |-> <<>>]
    /\ opts = [force |-> FALSE, pre |-> NoPath, post |-> NoPath]
    /\ pc = "idle"
    /\ ordered = <<>>
    /\ pending = {}
    /\ trace = <<>>

\* one call of Symlink::create on the mapping
SymlinkCreate ==
    /\ calls < MaxCalls
    /\ job.op = "link"
    /\ \E force \in BOOLEAN :
         LET r == Symlink_create(fs, job.from, job.to, force) IN
         /\ fs' = r.fs
         /\ last' = Call("link", job.from, job.to, <<>>, force, fs, r)
    /\ prev' = last
    /\ calls' = calls + 1
    /\ UNCHANGED <<job, deployVars>>

\* one call of Template::render on the mapping
TemplateRender ==
    /\ calls < MaxCalls
    /\ job.op = "template"
    /\ \E force \in BOOLEAN :
         LET r == Template_render(fs, job.from, job.to, job.variables, force) IN
         /\ fs' = r.fs
         /\ last' = Call("template", job.from, job.to, job.variables, force, fs, r)
    /\ prev' = last
    /\ calls' = calls + 1
    /\ UNCHANGED <<job, deployVars>>

\* one call of Filesystem::copy on the mapping
FilesystemCopy ==
    /\ calls < MaxCalls
    /\ job.op = "copy"
    /\ \E force \in BOOLEAN :
         LET r == Filesystem_copy(fs, job.from, job.to, force) IN
         /\ fs' = r.fs
         /\ last' = Call("copy", job.from, job.to, <<>>, force, fs, r)
    /\ prev' = last
    /\ calls' = calls + 1
    /\ UNCHANGED <<job, deployVars>>

Next == SymlinkCreate \/ TemplateRender \/ FilesystemCopy

Spec == Init /\ [][Next]_vars

----------------------------------------------------------------------------
(* hook.rs *)

\* render_template of hook.rs, line 69, after fs::write returned w
hook_written(f, w) ==
    IF ~w.ok THEN Outcome(f, FALSE, "write", <<>>)
    ELSE Outcome(w.fs, TRUE, "rendered", <<Sys("write")>>)

\* render_template of hook.rs, lines 64-69, after the render capability returned
hook_rendered(f, source, rendered) ==
    IF ~rendered.ok THEN Outcome(f, FALSE, "render", <<>>)
    ELSE hook_written(f, write_file(f, with_extension_templated(source), rendered.text))

\* render_template of hook.rs, lines 63-69, after the script was read
hook_read(f, source, variables, file_contents) ==
    IF ~file_contents.ok THEN Outcome(f, FALSE, "read", <<>>)
    ELSE hook_rendered(f, source, render_template(file_contents.text, variables))

\* render_template of hook.rs: renders the script next to itself, with the
\* extension replaced by "templated"
hook_render_template(f, source, variables) ==
    hook_read(f, source, variables, read_to_string(f, source))

\* run_script_file: how the script is spawned
run_script_file(f, script) ==
    IF ~exists(f, script) THEN [ok |-> FALSE, how |-> "none"]
    ELSE IF ~is_dir(f, script) /\ NodeAt(f, Resolve(f, script)).exec
         THEN [ok |-> TRUE, how |-> "direct"]
         ELSE [ok |-> TRUE, how |-> "sh"]

\* mutant: the exit status of the child is not looked at
Hook_waited_ignores_status(f, e, child, status) ==
    IF ~child.ok THEN Outcome(f, FALSE, "spawn", e)
    ELSE Outcome(f, TRUE, child.how, e \o <<Log("spawn")>>)

\* Hook::run, lines 29-36, after the child was spawned; status is its exit status
Hook_waited(f, e, child, status) ==
    IF ~child.ok THEN Outcome(f, FALSE, "spawn", e)
    ELSE Outcome(f, status = "success", child.how, e \o <<Log("spawn")>>)

\* Hook::run, lines 27-36, after the script was rendered
Hook_spawn(script_location, r, status) ==
    IF ~r.ok THEN Outcome(r.fs, FALSE, r.state, <<Log("Running hook")>> \o r.events)
    ELSE Hook_waited(r.fs, <<Log("Running hook")>> \o r.events,
                     run_script_file(r.fs, with_extension_templated(script_location)),
                     status)

\* mutant: a hook that does not exist is an error
Hook_run_requires_script(f, location, variables, status) ==
    IF ~exists(f, location) THEN Outcome(f, FALSE, "no hook", <<Log("No hook")>>)
    ELSE Hook_spawn(Abs(location),
                    hook_render_template(f, Abs(location), variables), status)

\* Hook::run
Hook_run(f, location, variables, status) ==
    IF ~exists(f, location) THEN Outcome(f, TRUE, "no hook", <<Log("No hook")>>)
    ELSE Hook_spawn(Abs(location),
                    hook_render_template(f, Abs(location), variables), status)

\* the entries of the working directory with the extension "templated"
templated_entries(f) ==
    { a \in DOMAIN f :
        Parent(a) = cwd /\ f[a].kind # "missing" /\ has_extension_templated(a) }

\* remove_templated_scripts: the outcomes it may have; it stops at the first
\* entry remove_file fails on, and read_dir yields the entries in any order
remove_templated_scripts(f) ==
    LET entries == templated_entries(f)
        bad == { a \in entries : ~remove_file(f, a).ok }
        good == entries \ bad
        without(R) == [a \in DOMAIN f |-> IF a \in R THEN Absent ELSE f[a]]
    IN  IF bad = {}
        THEN { Outcome(without(good), TRUE, "removed",
                       [i \in 1..Cardinality(good) |-> Sys("remove_file")]) }
        ELSE { Outcome(without(R), FALSE, "remove",
                       [i \in 1..Cardinality(R) |-> Sys("remove_file")]) :
                 R \in SUBSET good }

----------------------------------------------------------------------------
(* config.rs *)

Range(q) == { q[i] : i \in 1..Len(q) }

\* mutant: a package is ready once its dependencies are declared
ready_when_declared(packages, remaining, order) ==
    { n \in remaining : \A dep \in packages[n].depends : dep \in DOMAIN packages }

\* the package picked by the search loop of ordered_by_dependencies: the
\* first, in the iteration order of the HashMap, whose dependencies are all
\* in `order`
ready(packages, remaining, order) ==
    { n \in remaining : \A dep \in packages[n].depends : dep \in Range(order) }

\* Configuration::ordered_by_dependencies: the results it may have, one for
\* each iteration order of the HashMap; it panics when no package is ready
RECURSIVE ordering(_, _, _)
ordering(packages, remaining, order) ==
    IF remaining = {} THEN { [panic |-> FALSE, ordered |-> order] }
    ELSE IF ready(packages, remaining, order) = {}
         THEN { [panic |-> TRUE, ordered |-> order] }
         ELSE UNION { ordering(packages, remaining \ {n}, Append(order, n)) :
                        n \in ready(packages, remaining, order) }

\* mutant: when no package is ready, what was ordered so far is returned
ordered_by_dependencies_lenient(packages) ==
    { [panic |-> FALSE, ordered |-> o.ordered] :
        o \in ordering(packages, DOMAIN packages, <<>>) }

ordered_by_dependencies(packages) == ordering(packages, DOMAIN packages, <<>>)

\* merge_variables as load_config calls it: the packages' variables, folded
\* in the iteration order of the HashMap, chained after the global ones
merge_variables(variables, packages) ==
    LET defining(v) == { n \in DOMAIN packages : v \in DOMAIN packages[n].variables }
        names == DOMAIN variables
                    \cup UNION { DOMAIN packages[n].variables : n \in DOMAIN packages }
    IN  { m \in [names -> Literals] :
            \A v \in names :
                IF defining(v) = {} THEN m[v] = variables[v]
                ELSE \E n \in defining(v) : m[v] = packages[n].variables[v] }

----------------------------------------------------------------------------
(* deploy.rs *)

\* what a file was processed as, and the outcome
Processed(op, d, r) == [op |-> op, out |-> [r EXCEPT !.events = <<Log(d)>> \o r.events]]

NotProcessed(f) == [op |-> "none", out |-> Outcome(f, FALSE, "check if template", <<>>)]

\* process_simple, lines 59-65, once is_template returned t
process_simple_as(f, from, to, variables, force, t) ==
    IF ~t.ok THEN NotProcessed(f)
    ELSE IF t.value
         THEN Processed("template", "rendering template file",
                        Template_render(f, from, to, variables, force))
         ELSE Processed("link", "creating symlink", Symlink_create(f, from, to, force))

\* process_simple
process_simple(f, from, to, variables, force) ==
    process_simple_as(f, from, to, variables, force, is_template(f, from))

\* process_with_spec, lines 77-86, once is_template returned t
process_with_spec_as(f, from, to, is_symlink, variables, force, t) ==
    IF ~t.ok THEN NotProcessed(f)
    ELSE IF t.value
         THEN Processed("template", "rendering template file",
                        Template_render(f, from, to, variables, force))
    ELSE IF ~is_symlink
         THEN Processed("copy", "copying file", Filesystem_copy(f, from, to, force))
         ELSE Processed("link", "creating symlink", Symlink_create(f, from, to, force))

\* process_with_spec
process_with_spec(f, from, to, is_symlink, variables, force) ==
    process_with_spec_as(f, from, to, is_symlink, variables, force, is_template(f, from))

\* a stage deploy has gone through
Stage(stage, pkg, from, ok) == [stage |-> stage, pkg |-> pkg, from |-> from, ok |-> ok]

\* mutant: the loop over the packages ends with the first package
Position_first_package(order, files) ==
    IF files # {} THEN [ordered |-> order, pending |-> files]
    ELSE [ordered |-> <<>>, pending |-> {}]

\* the position of the loops of deploy over packages and files: packages
\* whose files are all processed are left behind
RECURSIVE Position(_, _)
Position(order, files) ==
    IF files # {} \/ order = <<>> THEN [ordered |-> order, pending |-> files]
    ELSE IF Len(order) = 1 THEN [ordered |-> <<>>, pending |-> {}]
    ELSE Position(Tail(order), config.packages[order[2]].files)

\* deploy, line 19: the pre hook
PreHook ==
    /\ pc = "pre"
    /\ \E status \in {"success", "failure"} :
         LET r == Hook_run(fs, opts.pre, config.variables, status) IN
         /\ fs' = r.fs
         /\ trace' = Append(trace, Stage("pre", "", opts.pre, r.ok))
         /\ pc' = IF r.ok THEN "order" ELSE "failed"
    /\ UNCHANGED <<config, opts, ordered, pending, last, reconcilerVars>>

\* deploy, line 26: the packages are put in order
OrderPackages ==
    /\ pc = "order"
    /\ \E o \in ordered_by_dependencies(config.packages) :
         IF o.panic
         THEN /\ pc' = "panicked"
              /\ UNCHANGED <<ordered, pending>>
         ELSE LET first == IF o.ordered = <<>> THEN {}
                           ELSE config.packages[o.ordered[1]].files
                  pos == Position(o.ordered, first)
              IN
              /\ ordered' = pos.ordered
              /\ pending' = pos.pending
              /\ pc' = IF pos.ordered = <<>> THEN "post" ELSE "files"
    /\ UNCHANGED <<fs, config, opts, trace, last, reconcilerVars>>

\* mutant: the loops go on after a file that failed
FileDone_goes_on(m, variables, r) ==
    LET pos == Position(ordered, pending \ {m}) IN
    /\ fs' = r.out.fs
    /\ last' = Call(r.op, m.from, m.to, variables, opts.force, fs, r.out)
    /\ trace' = Append(trace, Stage("file", ordered[1], m.from, r.out.ok))
    /\ ordered' = pos.ordered
    /\ pending' = pos.pending
    /\ pc' = IF pos.ordered = <<>> THEN "post" ELSE "files"
    /\ UNCHANGED <<config, opts, reconcilerVars>>

\* the bookkeeping of one iteration of the loop over the files of a package
FileDone(m, variables, r) ==
    LET pos == Position(ordered, pending \ {m}) IN
    /\ fs' = r.out.fs
    /\ last' = Call(r.op, m.from, m.to, variables, opts.force, fs, r.out)
    /\ trace' = Append(trace, Stage("file", ordered[1], m.from, r.out.ok))
    /\ ordered' = pos.ordered
    /\ pending' = pos.pending
    /\ pc' = IF ~r.out.ok THEN "failed"
             ELSE IF pos.ordered = <<>> THEN "post" ELSE "files"
    /\ UNCHANGED <<config, opts, reconcilerVars>>

\* deploy, lines 29-31: a file given as FileSpec::Simple
ProcessSimple ==
    /\ pc = "files"
    /\ \E m \in pending :
         /\ m.spec = "simple"
         /\ FileDone(m, config.variables,
                     process_simple(fs, m.from, m.to, config.variables, opts.force))

\* deploy, lines 32-39: a file given as FileSpec::WithSpec
ProcessWithSpec ==
    /\ pc = "files"
    /\ \E m \in pending :
         /\ m.spec # "simple"
         /\ FileDone(m, config.packages[ordered[1]].variables,
                     process_with_spec(fs, m.from, m.to, m.spec = "symlink",
                                       config.packages[ordered[1]].variables,
                                       opts.force))

\* deploy, line 46: the post hook
PostHook ==
    /\ pc = "post"
    /\ \E status \in {"success", "failure"} :
         LET r == Hook_run(fs, opts.post, config.variables, status) IN
         /\ fs' = r.fs
         /\ trace' = Append(trace, Stage("post", "", opts.post, r.ok))
         /\ pc' = IF r.ok THEN "cleanup" ELSE "failed"
    /\ UNCHANGED <<config, opts, ordered, pending, last, reconcilerVars>>

\* deploy, line 48: the rendered scripts are removed
Cleanup ==
    /\ pc = "cleanup"
    /\ \E r \in remove_templated_scripts(fs) :
         /\ fs' = r.fs
         /\ trace' = Append(trace, Stage("cleanup", "", cwd, r.ok))
         /\ pc' = IF r.ok THEN "done" ELSE "failed"
    /\ UNCHANGED <<config, opts, ordered, pending, last, reconcilerVars>>

NextDeploy ==
    PreHook \/ OrderPackages \/ ProcessSimple \/ ProcessWithSpec \/ PostHook \/ Cleanup

----------------------------------------------------------------------------
(* One run of deploy on a loaded configuration *)

PackageNames == {"A", "B", "C"}

\* the file mappings of each package (HashMap<PathBuf, FileTarget>)
FilesOf(n) ==
    CASE n = "A" -> { [from |-> "s", to |-> "/d/t", spec |-> "simple"],
                      [from |-> "/w/l", to |-> "/d/u", spec |-> "symlink"] }
      [] n = "B" -> { [from |-> "s", to |-> "/d/v", spec |-> "copy"] }
      [] n = "C" -> { [from |-> "/x", to |-> "/d/v", spec |-> "simple"] }

\* the dependencies a package may declare; "Z" is declared by no configuration
DependsOf(n) ==
    CASE n = "A" -> { {}, {"B"} }
      [] n = "B" -> { {}, {"A"} }
      [] n = "C" -> { {}, {"A", "B"}, {"Z"} }

VariablesOf(n) ==
    CASE n = "A" -> { <<>>, [v \in VarNames |-> "b"] }
      [] OTHER -> { <<>> }

PackagesOf(n) ==
    [depends : DependsOf(n), files : {FilesOf(n)}, variables : VariablesOf(n)]

\* the package tables a configuration file may declare
PackageTables ==
    UNION { { t \in [names -> UNION {PackagesOf(n) : n \in names}] :
                \A n \in names : t[n] \in PackagesOf(n) } :
            names \in { {"A", "B"}, PackageNames } }

\* load_config: the Configuration of a file with these packages and variables
load_config(packages, variables) ==
    { [packages |-> packages, variables |-> m] :
        m \in merge_variables(variables, packages) }

Configurations ==
    UNION { load_config(t, g) :
              t \in PackageTables, g \in { <<>>, [v \in VarNames |-> "a"] } }

HookScripts == { Absent, ModeFile(<<"a">>, FALSE), ModeFile(<<"{{x}}">>, TRUE) }

\* the trees deploy may find, given where the pre hook is configured
DeployFilesystems(pre) ==
    { Tree(g) :
        g \in { g \in [ {"/w/s", "/d", "/d/t", Abs(pre), "/w/post.sh", "/w/old.templated"}
                          -> {Absent, DirNode} \cup HookScripts
                               \cup {FileNode(b) : b \in {<<"a">>, <<"b">>, <<"a", "{{x}}">>}} ] :
                   /\ g["/w/s"] \in {Absent, FileNode(<<"a">>), FileNode(<<"a", "{{x}}">>)}
                   /\ g["/d"] \in {Absent, DirNode}
                   /\ g["/d/t"] \in {Absent, FileNode(<<"a">>)}
                   /\ g["/d"] = Absent => g["/d/t"] = Absent
                   /\ g[Abs(pre)] \in HookScripts
                   /\ g["/w/post.sh"] \in {Absent, FileNode(<<"a">>)}
                   /\ g["/w/old.templated"] \in {Absent, FileNode(<<"b">>)} } }

\* the parts of the tree that are the same in every run
Fixture(f, pre) ==
    [f EXCEPT !["/w/l"] = LinkNode("/w/s"),
              !["/x"] = FileNode(<<"a">>),
              !["/w/h"] = IF pre = "h/pre.sh" THEN DirNode ELSE Absent]

InitDeploy ==
    /\ opts \in [force : BOOLEAN, pre : {"pre.sh", "h/pre.sh"}, post : {"post.sh"}]
    /\ fs \in { Fixture(f, opts.pre) : f \in DeployFilesystems(opts.pre) }
    /\ config \in Configurations
    /\ pc = "pre"
    /\ ordered = <<>>
    /\ pending = {}
    /\ trace = <<>>
    /\ last = NoCall
    /\ prev = NoCall
    /\ calls = 0
    /\ job = [op |-> "none", from |-> NoPath, to |-> NoPath, variables |-> <<>>]

SpecDeploy == InitDeploy /\ [][NextDeploy]_vars

----------------------------------------------------------------------------
(* Vocabulary of the claims *)

\* the node at the target of the mapping, before and after the latest call
TargetBefore(c) == NodeAt(c.pre, Abs(c.to))

TargetNow == NodeAt(fs, Abs(last.to))

SourceBefore(c) == NodeAt(c.pre, Abs(c.from))

\* the classifications the call c was given
SourceType(c) == try_from(c.pre, c.from)

TargetType(c) == try_from(c.pre, c.to)

\* the call c issued no filesystem call and left the tree as it was
NoMutation(c, after) == Ops(c.events) = <<>> /\ after = c.pre

IsText(bytes) == \A i \in 1..Len(bytes) : bytes[i] # BadByte

\* the source of the call is a regular file holding valid text
SourceIsText(c) ==
    SourceBefore(c).kind = "file" /\ IsText(SourceBefore(c).bytes)

\* the source exists (Path::exists) and can be classified
SourceExists(c) == exists(c.pre, c.from) /\ SourceType(c).ok

\* the text rendering the source of the call produces
Rendered(c) == render_template(SourceBefore(c).bytes, c.variables)

----------------------------------------------------------------------------
(* C1 .. C8: the reconcilers *)

\* C1: when the target is a regular file (text, binary or unreadable) or a
\* directory, Symlink::create issues no filesystem call and leaves the whole
\* tree, the target included, as it was, for every source and both values of
\* force.
C1_LinkLeavesForeignContent ==
    (last.op = "link" /\ TargetBefore(last).kind \in {"file", "unreadable", "dir"})
        => (NoMutation(last, fs) /\ TargetNow = TargetBefore(last))

C1_Witness ==
    /\ last.op = "link" /\ last.force /\ last.ok
    /\ last.state = "TargetNotSymlink"
    /\ TargetBefore(last).kind = "file"
    /\ SourceBefore(last).kind = "file"

\* C2 (as claimed): when the target is classified Directory, SymbolicLink or
\* binary File(None), the template outcome is TargetNotRegularFile and
\* Template::render issues no filesystem call and leaves the tree as it was.
C2_TemplateLeavesForeignContent ==
    (last.op = "template" /\ TargetType(last).ok
        /\ (\/ TargetType(last).type.tag \in {"Directory", "SymbolicLink"}
            \/ TargetType(last).type = File(None)))
        => (last.state = "TargetNotRegularFile" /\ NoMutation(last, fs))

\* C3: with an existing, classifiable source and an absent target, two
\* consecutive runs of Symlink::create without force: the first creates the
\* link, the second finds Identical and issues no filesystem call.
C3_LinkIdempotent ==
    (/\ prev.op = "link" /\ last.op = "link"
     /\ ~prev.force /\ ~last.force
     /\ SourceExists(prev)
     /\ TargetBefore(prev) = Absent)
        => (/\ prev.ok
            /\ Ops(prev.events) = <<"create_dir_all", "symlink">>
            /\ last.pre[Abs(last.to)].kind = "symlink"
            /\ last.ok
            /\ last.state = "Identical"
            /\ NoMutation(last, fs))

C3_Witness ==
    /\ prev.op = "link" /\ last.op = "link"
    /\ ~prev.force /\ ~last.force
    /\ prev.state = "OnlySourceExists" /\ prev.ok
    /\ last.state = "Identical"
    /\ last.from = "/w/l"

\* C4 (as claimed): when the target already holds exactly the text that
\* rendering the source with the variables produces and force is not set,
\* Template::render does not write the target.
C4_UpToDateTargetNotRewritten ==
    (/\ last.op = "template" /\ ~last.force
     /\ SourceIsText(last)
     /\ Rendered(last).ok
     /\ TargetBefore(last) = FileNode(Rendered(last).text))
        => NoMutation(last, fs)

C6_ChangedLinkNotRepointed ==
    (/\ last.op = "link"
     /\ SourceExists(last)
     /\ TargetBefore(last).kind = "symlink"
     /\ TargetBefore(last).dest # Resolve(last.pre, last.from))
        => (/\ last.ok
            /\ last.state = "Changed"
            /\ NoMutation(last, fs)
            /\ TargetNow = TargetBefore(last))

C6_Witness ==
    /\ last.op = "link" /\ last.force /\ last.state = "Changed"
    /\ SourceExists(last)
    /\ TargetBefore(last) = LinkNode("/x")
    /\ exists(last.pre, "/x")

\* C7: when the source exists and the target is absent, after a successful
\* Symlink::create (any force) the parent directory of the target exists and
\* the target is a symbolic link to the canonical source: an absolute path
\* that is itself no symbolic link, whatever path the source was given by.
C7_LinkCreated ==
    (/\ last.op = "link" /\ last.ok
     /\ SourceType(last).ok /\ SourceType(last).type # Missing
     /\ TargetBefore(last) = Absent)
        => (/\ is_dir(fs, Parent(Abs(last.to)))
            /\ TargetNow.kind = "symlink"
            /\ TargetNow.dest \in AbsPaths
            /\ TargetNow.dest = Resolve(last.pre, last.from)
            /\ fs[TargetNow.dest].kind \notin {"symlink", "missing"})

C7_Witness ==
    /\ last.op = "link" /\ last.ok /\ last.state = "OnlySourceExists"
    /\ last.from = "/w/l"
    /\ last.pre["/d"] = Absent
    /\ TargetNow = LinkNode("/w/s")

\* C8: when the source is a text file and the target is absent or a text
\* file with other content, after a successful Template::render the target is
\* a regular file holding exactly the rendering of the source text with the
\* variables, and its parent directory exists.
C8_TemplateRendered ==
    (/\ last.op = "template" /\ last.ok
     /\ SourceIsText(last)
     /\ \/ TargetBefore(last) = Absent
        \/ /\ TargetBefore(last).kind = "file"
           /\ IsText(TargetBefore(last).bytes)
           /\ TargetBefore(last).bytes # SourceBefore(last).bytes)
        => (/\ last.state \in {"OnlySourceExists", "Changed"}
            /\ Rendered(last).ok
            /\ TargetNow = FileNode(Rendered(last).text)
            /\ IsText(TargetNow.bytes)
            /\ \A i \in 1..Len(TargetNow.bytes) : TargetNow.bytes[i] \notin Markers
            /\ is_dir(fs, Parent(Abs(last.to))))

C8_Witness ==
    /\ last.op = "template" /\ last.ok /\ last.state = "OnlySourceExists"
    /\ SourceBefore(last).bytes = <<"a", "{{x}}">>
    /\ last.variables = [v \in VarNames |-> "b"]
    /\ last.pre["/d"] = Absent
    /\ TargetNow = FileNode(<<"a", "b">>)

----------------------------------------------------------------------------
(* C9, C10: the driver *)

\* the file mappings deploy has attempted, as positions of the trace
IsFile(i, n, from) ==
    trace[i].stage = "file" /\ trace[i].pkg = n /\ trace[i].from = from

Declared == DOMAIN config.packages

\* C9: whenever deploy attempts a file mapping of a package, every package
\* it depends on is declared and each of its file mappings was attempted
\* earlier in the run.
C9_DependenciesFirst ==
    \A j \in 1..Len(trace) :
        trace[j].stage = "file" =>
            \A dep \in config.packages[trace[j].pkg].depends :
                /\ dep \in Declared
                /\ \A m \in config.packages[dep].files :
                      \E i \in 1..(j - 1) : IsFile(i, dep, m.from)

C9_Witness ==
    /\ pc = "done"
    /\ Declared = PackageNames
    /\ config.packages["B"].depends = {"A"}
    /\ config.packages["A"].depends = {}
    /\ config.packages["C"].depends = {}
    /\ \E j \in 1..Len(trace) : IsFile(j, "B", "s")

Rank(stage) ==
    CASE stage = "pre" -> 1
      [] stage = "file" -> 2
      [] stage = "post" -> 3
      [] stage = "cleanup" -> 4

\* C10: the stages of a run come in the order pre hook, file mappings, post
\* hook, cleanup; the pre hook has succeeded before any mapping is
\* reconciled, every mapping of every package has been reconciled with
\* success before the post hook runs, the post hook has succeeded before the
\* cleanup; no hook, mapping or cleanup runs twice, and a run that succeeds
\* has gone through all of them.
C10_StageOrder ==
    /\ \A i, j \in 1..Len(trace) :
          i < j => /\ Rank(trace[i].stage) <= Rank(trace[j].stage)
                   /\ trace[i].ok
                   /\ trace[i].stage = trace[j].stage =>
                         /\ trace[i].stage = "file"
                         /\ <<trace[i].pkg, trace[i].from>> # <<trace[j].pkg, trace[j].from>>
    /\ trace # <<>> => trace[1].stage = "pre"
    /\ \A j \in 1..Len(trace) :
          trace[j].stage = "post" =>
              \A n \in Declared : \A m \in config.packages[n].files :
                  \E i \in 1..(j - 1) : IsFile(i, n, m.from)
    /\ \A j \in 1..Len(trace) :
          trace[j].stage = "cleanup" => (j > 1 /\ trace[j - 1].stage = "post")
    /\ pc = "done" =>
          /\ trace[Len(trace)].stage = "cleanup"
          /\ \A i \in 1..Len(trace) : trace[i].ok

C10_Witness ==
    /\ pc = "done"
    /\ Declared = PackageNames
    /\ Len(trace) = 7
    /\ fs["/w/post.templated"] = Absent
    /\ \E i \in 1..Len(trace) : trace[i].stage = "file" /\ last.op = "copy"

----------------------------------------------------------------------------
(* C11 .. C16: failures, hooks and dispatch in the driver *)

\* the latest stage of the run is a file mapping that failed
MappingFailed ==
    trace # <<>> /\ trace[Len(trace)].stage = "file" /\ ~trace[Len(trace)].ok

\* C11: when reconciling a mapping fails, deploy has failed and takes no
\* further step (no later mapping, no post hook, no cleanup, no rollback):
\* the tree is the one the earlier mappings left, apart from what the failing
\* call itself did to its own target and the target's parent directory.
C11_AbortWithoutRollback ==
    /\ [](MappingFailed =>
            /\ pc = "failed"
            /\ ~last.ok
            /\ \A i \in 1..(Len(trace) - 1) : trace[i].ok /\ trace[i].stage \in {"pre", "file"}
            /\ \A a \in AbsPaths \ {Abs(last.to), Parent(Abs(last.to))} :
                  fs[a] = last.pre[a]
            /\ Ops(last.events) = <<>> => fs = last.pre)
    /\ [][MappingFailed => (fs' = fs /\ trace' = trace /\ pc' = pc)]_vars

C11_Witness ==
    /\ MappingFailed
    /\ Len(trace) >= 3
    /\ trace[2].stage = "file" /\ trace[2].pkg = "C"
    /\ fs["/d/v"] = LinkNode("/x")
    /\ pending # {}

\* the script a hook renders next to its location
TemplatedOf(location) == with_extension_templated(Abs(location))

\* C12 (as claimed): when deploy has returned success, the rendered script
\* of the pre hook and of the post hook no longer exist, wherever the hook is
\* located.  (No rendered hook script exists when a run starts, so one found
\* at the end was created during the run.)
C12_TemplatedGoneOnSuccess ==
    pc = "done" =>
        /\ fs[TemplatedOf(opts.pre)] = Absent
        /\ fs[TemplatedOf(opts.post)] = Absent

\* the hook deploy is about to run, if any
HookDue ==
    IF pc = "pre" THEN <<opts.pre>> ELSE IF pc = "post" THEN <<opts.post>> ELSE <<>>

\* C13: when the location of the hook that is due does not exist, Hook::run
\* returns success with only the log line "No hook" and no filesystem call,
\* the tree is left as it was, and deploy goes on with the next stage
\* (ordering the packages after the pre hook, the cleanup after the post
\* hook).
C13_MissingHookSkipped ==
    /\ [](\A i \in 1..Len(HookDue) : ~exists(fs, HookDue[i]) =>
            \A status \in {"success", "failure"} :
                /\ Hook_run(fs, HookDue[i], config.variables, status).ok
                /\ Hook_run(fs, HookDue[i], config.variables, status).fs = fs
                /\ Hook_run(fs, HookDue[i], config.variables, status).events
                      = <<Log("No hook")>>)
    /\ [][\A i \in 1..Len(HookDue) : ~exists(fs, HookDue[i]) =>
            /\ fs' = fs
            /\ trace' = Append(trace, Stage(pc, "", HookDue[i], TRUE))
            /\ pc' = IF pc = "pre" THEN "order" ELSE "cleanup"]_vars

C13_Witness ==
    /\ pc = "done"
    /\ fs[Abs(opts.pre)] = Absent /\ fs[Abs(opts.post)] = Absent
    /\ fs[TemplatedOf(opts.pre)] = Absent /\ fs[TemplatedOf(opts.post)] = Absent
    /\ trace[1] = Stage("pre", "", opts.pre, TRUE)
    /\ \E i \in 1..Len(trace) : trace[i].stage = "file"

\* the latest stage of the run is a hook that failed
HookFailed ==
    trace # <<>> /\ trace[Len(trace)].stage \in {"pre", "post"} /\ ~trace[Len(trace)].ok

\* C14: a hook whose script exists and whose child exits with a failure
\* status makes Hook::run fail; when a hook has failed deploy has failed and
\* takes no further step; when it is the pre hook, no file mapping was
\* reconciled and the post hook was not run.
C14_FailingHookAborts ==
    /\ [](\A i \in 1..Len(HookDue) : exists(fs, HookDue[i]) =>
            ~Hook_run(fs, HookDue[i], config.variables, "failure").ok)
    /\ [](HookFailed =>
            /\ pc = "failed"
            /\ trace[Len(trace)].stage = "pre" => (Len(trace) = 1 /\ last = NoCall)
            /\ \A i \in 1..(Len(trace) - 1) : trace[i].stage \in {"pre", "file"})
    /\ [][HookFailed => (fs' = fs /\ trace' = trace /\ pc' = pc)]_vars

C14_Witness ==
    /\ HookFailed
    /\ Len(trace) = 1
    /\ fs[Abs(opts.pre)] = ModeFile(<<"a">>, FALSE)
    /\ fs[TemplatedOf(opts.pre)] = FileNode(<<"a">>)
    /\ pc = "failed"

\* the package variables p merged over the process-wide variables g
MergedOver(p, g) ==
    [v \in DOMAIN p \cup DOMAIN g |-> IF v \in DOMAIN p THEN p[v] ELSE g[v]]

\* the latest stage of the run is a file mapping that was dispatched
MappingDispatched ==
    trace # <<>> /\ trace[Len(trace)].stage = "file" /\ last.op # "none"

\* the package owning the mapping reconciled latest, and the mapping
OwnerOfLast == config.packages[trace[Len(trace)].pkg]

MappingOfLast ==
    CHOOSE m \in OwnerOfLast.files : m.from = last.from /\ m.to = last.to

\* C15 (as claimed): every mapping rendered as a template, given in simple
\* form or with a spec, is rendered with the variables of the owning package
\* merged over the process-wide variables of the configuration.
C15_RenderVariables ==
    (MappingDispatched /\ last.op = "template")
        => /\ DOMAIN last.variables = DOMAIN MergedOver(OwnerOfLast.variables, config.variables)
           /\ \A v \in DOMAIN last.variables :
                 last.variables[v] = MergedOver(OwnerOfLast.variables, config.variables)[v]

\* C16 (as claimed): a mapping whose spec asks for a symbolic link is handled
\* by Symlink::create and one whose spec asks for a copy by Filesystem::copy,
\* whatever the source holds; a mapping in simple form is a template when the
\* source holds a template marker and a link otherwise.
C16_DispatchFollowsMode ==
    MappingDispatched
        => /\ MappingOfLast.spec = "symlink" => last.op = "link"
           /\ MappingOfLast.spec = "copy" => last.op = "copy"
           /\ MappingOfLast.spec = "simple" =>
                 last.op = (IF is_template(last.pre, last.from).value
                            THEN "template" ELSE "link")

----------------------------------------------------------------------------
(* C17 .. C20: classification, decisions and the copy action *)

\* what FileType::try_from is to answer for a path, given the node at the
\* path itself
Classified(f, p) ==
    CASE NodeAt(f, Abs(p)).kind = "symlink" ->
            try_from(f, p) = [ok |-> TRUE, type |-> SymbolicLink(NodeAt(f, Abs(p)).dest)]
      [] NodeAt(f, Abs(p)).kind = "dir" ->
            try_from(f, p) = [ok |-> TRUE, type |-> Directory]
      [] NodeAt(f, Abs(p)).kind = "file" /\ IsText(NodeAt(f, Abs(p)).bytes) ->
            try_from(f, p) = [ok |-> TRUE, type |-> File(Some(NodeAt(f, Abs(p)).bytes))]
      [] NodeAt(f, Abs(p)).kind = "file" /\ ~IsText(NodeAt(f, Abs(p)).bytes) ->
            try_from(f, p) = [ok |-> TRUE, type |-> File(None)]
      [] NodeAt(f, Abs(p)).kind = "missing" ->
            try_from(f, p) = [ok |-> TRUE, type |-> Missing]
      [] OTHER -> ~try_from(f, p).ok

\* C17: FileType::try_from answers SymbolicLink whenever the path itself is
\* a symbolic link (to a directory, a file or nothing), else Directory, else
\* File(Some(text)) for valid text, else File(None) for undecodable bytes,
\* else Missing for an absent path, without an error; this holds for every
\* path of every tree a call finds or leaves, and the classifications a call
\* used are these.
C17_ClassificationPrioritised ==
    /\ \A p \in AbsPaths \cup RelPaths : Classified(fs, p)
    /\ last.op # "none" => (Classified(last.pre, last.from) /\ Classified(last.pre, last.to))

C17_Witness ==
    /\ last.op = "link" /\ last.from = "/w/l"
    /\ last.pre["/w/l"] = LinkNode("/x") /\ last.pre["/x"] = Absent
    /\ SourceType(last) = [ok |-> TRUE, type |-> SymbolicLink("/x")]
    /\ TargetBefore(last) = LinkNode("/w/s") /\ last.pre["/w/s"] = DirNode
    /\ TargetType(last) = [ok |-> TRUE, type |-> SymbolicLink("/w/s")]

\* C18: when the source is classified Missing, Symlink::create issues no
\* filesystem call and leaves the tree as it was for both values of force;
\* when the target can be classified it returns success, with the outcome
\* OnlyTargetExists when the target is a symbolic link and BothMissing when
\* the target is absent.
C18_MissingSourceNeverLinked ==
    (last.op = "link" /\ SourceType(last) = [ok |-> TRUE, type |-> Missing])
        => /\ NoMutation(last, fs)
           /\ TargetType(last).ok => last.ok
           /\ TargetBefore(last).kind = "symlink" => last.state = "OnlyTargetExists"
           /\ TargetBefore(last) = Absent => last.state = "BothMissing"

C18_Witness ==
    /\ last.op = "link" /\ last.force /\ last.ok
    /\ SourceBefore(last) = Absent
    /\ TargetBefore(last) = LinkNode("/w/s")
    /\ last.state = "OnlyTargetExists"
    /\ prev.op = "link" /\ prev.state = "OnlyTargetExists"

\* the call decided not to act: it returned success without a filesystem call
DidNotAct(c) == c.ok /\ Ops(c.events) = <<>>

\* the two latest calls were given the same classifications, the same force
\* flag and, for links, the same canonical source path
SameDecisionInputs ==
    /\ prev.op = last.op /\ last.op \in {"link", "template"}
    /\ prev.force = last.force
    /\ SourceType(prev) = SourceType(last)
    /\ TargetType(prev) = TargetType(last)
    /\ last.op = "link" =>
          real_path(prev.pre, prev.from) = real_path(last.pre, last.from)

ContentAt(f, p) == NodeAt(f, Resolve(f, p)).bytes

\* C20 (as claimed): Filesystem::copy copies exactly when the target does
\* not exist or force is set; when the target exists and force is not set it
\* returns success and leaves the tree as it was; after a copy that was
\* performed the content of the target is the content the source had.
C20_CopyIfForceOrAbsent ==
    last.op = "copy"
        => /\ (exists(last.pre, last.to) /\ ~last.force)
                 => (last.ok /\ NoMutation(last, fs))
           /\ (last.ok /\ (~exists(last.pre, last.to) \/ last.force))
                 => Ops(last.events) = <<"create_dir_all", "copy">>
           /\ (\E i \in 1..Len(last.events) : last.events[i] = Sys("copy"))
                 => /\ ~exists(last.pre, last.to) \/ last.force
                    /\ ContentAt(fs, last.to) = ContentAt(last.pre, last.from)

----------------------------------------------------------------------------
(* C21, C24, C27: what the reconcilers do around a failure, and what they log *)

\* C21 (as claimed): when the source is classified Missing or File(None),
\* Template::render issues no filesystem call and leaves the tree as it was,
\* for every target and both values of force.
C21_TemplateNeedsTextSource ==
    (/\ last.op = "template"
     /\ SourceType(last).ok
     /\ SourceType(last).type \in {Missing, File(None)})
        => NoMutation(last, fs)

\* the call was handled by one of the three reconcilers
Reconciled(c) == c.op \in {"link", "template", "copy"}

\* C24 (as claimed): a reconciler logs its decision before its first
\* filesystem call, and every call that returns success has logged a
\* decision, also when nothing was done.
C24_ReportBeforeApply ==
    Reconciled(last)
        => /\ Ops(last.events) # <<>> => last.events[1].kind = "log"
           /\ last.ok => (last.events # <<>> /\ last.events[1].kind = "log")

\* Template::render failed reading or rendering the source
RenderFailed(c) ==
    /\ c.op = "template" /\ ~c.ok /\ c.state # "error"
    /\ ~SourceIsText(c) \/ ~Rendered(c).ok

\* C27 (as claimed): when Template::render fails because the source cannot
\* be read as text or cannot be rendered, the target is as it was before the
\* call, for both values of force.
C27_FailedRenderKeepsTarget ==
    RenderFailed(last) => TargetNow = TargetBefore(last)

----------------------------------------------------------------------------
(* C22, C23, C25, C26, C28: sequencing, hooks and cleanup in the driver *)

\* the packages that are ready after at most k rounds: all their
\* dependencies are declared and ready in fewer rounds
RECURSIVE ReadyWithin(_, _)
ReadyWithin(packages, k) ==
    IF k = 0 THEN {}
    ELSE { n \in DOMAIN packages : packages[n].depends \subseteq ReadyWithin(packages, k - 1) }

\* the packages that are on no dependency cycle and depend, directly or not,
\* on declared packages only
Resolvable == ReadyWithin(config.packages, Cardinality(Declared))

\* the mapping m of package n was attempted, or is still ahead in the loops
AttemptedOrAhead(n, m) ==
    \/ \E i \in 1..Len(trace) : IsFile(i, n, m.from)
    \/ /\ n \in Range(ordered)
       /\ n = ordered[1] => m \in pending

\* C22: ordered_by_dependencies has a result for every package table: when
\* every package can become ready, an ordering holding every declared
\* package exactly once; otherwise (a cycle, or a dependency that is not
\* declared) a panic and no ordering.  deploy processes packages only after
\* an ordering of all of them, and leaves no mapping of any package out.
C22_OrderingComplete ==
    /\ ordered_by_dependencies(config.packages) # {}
    /\ \A o \in ordered_by_dependencies(config.packages) :
          IF Resolvable = Declared
          THEN /\ ~o.panic
               /\ Len(o.ordered) = Cardinality(Declared)
               /\ Range(o.ordered) = Declared
          ELSE o.panic
    /\ pc = "panicked" => Resolvable # Declared
    /\ pc \in {"files", "post", "cleanup", "done"} =>
          /\ Resolvable = Declared
          /\ \A n \in Declared : \A m \in config.packages[n].files :
                AttemptedOrAhead(n, m)

C22_Witness ==
    /\ pc = "panicked"
    /\ trace = <<Stage("pre", "", opts.pre, TRUE)>>
    /\ Declared = PackageNames
    /\ config.packages["A"].depends = {"B"}
    /\ config.packages["B"].depends = {"A"}
    /\ config.packages["C"].depends = {}

\* C23 (as claimed): a hook whose script has an executable bit set is
\* spawned directly, and one whose script has none is run through sh.
C23_HookModeFollowsScript ==
    \A i \in 1..Len(HookDue) :
        (/\ exists(fs, HookDue[i])
         /\ Hook_run(fs, HookDue[i], config.variables, "success").ok)
            => Hook_run(fs, HookDue[i], config.variables, "success").state
                 = (IF NodeAt(fs, Resolve(fs, HookDue[i])).exec THEN "direct" ELSE "sh")

\* C25 (as claimed): for a configuration and a tree, deploy has one order of
\* the packages and one order of the mappings of a package, and loading the
\* packages with any process-wide variables gives one variable mapping.
C25_DeterministicOrder ==
    /\ pc = "order" =>
          Cardinality({ o.ordered : o \in ordered_by_dependencies(config.packages) }) <= 1
    /\ pc = "files" => Cardinality(pending) = 1
    /\ \A g \in { <<>>, [v \in VarNames |-> "a"] } :
          Cardinality(load_config(config.packages, g)) = 1

\* C26 (as claimed): a mapping whose source does not exist is reconciled as
\* a no-op with the outcome OnlyTargetExists or BothMissing, without a
\* filesystem call, and deploy does not fail on it.
C26_MissingSourceSkipped ==
    (/\ trace # <<>> /\ trace[Len(trace)].stage = "file"
     /\ ~exists(last.pre, last.from))
        => /\ trace[Len(trace)].ok
           /\ pc # "failed"
           /\ NoMutation(last, fs)
           /\ last.state \in {"OnlyTargetExists", "BothMissing"}

\* C28 (as claimed): the cleanup of deploy changes no path other than the
\* rendered scripts of the two hooks of the run.
C28_CleanupOnlyHookArtifacts ==
    [][pc = "cleanup" =>
          \A a \in AbsPaths \ {TemplatedOf(opts.pre), TemplatedOf(opts.post)} :
              fs'[a] = fs[a]]_vars

====
